---------------------------- MODULE Spec2Model ----------------------------
(***************************************************************************)
(* A model of changelog.py: the Changelog / Version / Change text parser   *)
(* and serializer, get_mrs, and the 'add' flow of main.                    *)
(*                                                                         *)
(* A Python str is a sequence of one-character strings, so that the        *)
(* regular expressions, strip, splitlines and the % formatting are         *)
(* computed character by character as the code computes them.  A call      *)
(* that can raise returns a record [err |-> <exception class>]; a call     *)
(* that returns has err = "" and carries its value in val.                 *)
(***************************************************************************)
EXTENDS Integers, Sequences, FiniteSets, TLC

VARIABLES
    pc,            \* where the program is
    arg,           \* what it was given: arguments, and what Gitlab holds
    res,           \* what came of it: a value returned, an exception raised
    file,          \* the changelog file
    changelog,     \* main: changelog
    version,       \* main: version
    last_version,  \* main: last_version, <<>> for None
    since,         \* main and get_mrs: since
    mrs,           \* get_mrs: mrs
    list_mrs,      \* get_mrs: list(mrs), which the second loop runs over
    page,          \* get_mrs: page
    i,             \* get_mrs: i
    text           \* main: text

vars == <<pc, arg, res, file, changelog, version, last_version, since, mrs,
          list_mrs, page, i, text>>
\* the changelog file and the names of main and get_mrs
locals == <<file, changelog, version, last_version, since, mrs, list_mrs, page, i,
         text>>

(***************************************************************************)
(* Bounds of the model.                                                    *)
(***************************************************************************)
MaxTitleParts == 3
MaxLines == 4
MaxVersions == 2
MaxMrs == 3
MaxDraftMrs == 2
MaxTime == 3
MaxRuns == 2
\* the size of a page of merge requests (100 in get_mrs)
per_page == 2

(***************************************************************************)
(* Python built-ins used by the parser.                                    *)
(***************************************************************************)
\* None, where a time is expected
None == 0

Ok(v) == [err |-> "", val |-> v]
Raise(e) == [err |-> e]

Range(f) == {f[k] : k \in DOMAIN f}
Min(S) == CHOOSE x \in S : \A y \in S : x <= y
Max(S) == CHOOSE x \in S : \A y \in S : x >= y
From(s, p) == SubSeq(s, p, Len(s))

\* string.whitespace as str.strip() and the pattern \s use it (the
\* characters of it that the model's texts contain).
WS == {" ", "\t", "\n", "\r"}

DIGITS == <<"0", "1", "2", "3", "4", "5", "6", "7", "8", "9">>
IsDigit(c) == c \in Range(DIGITS)
DigitVal(c) == (CHOOSE k \in 1..10 : DIGITS[k] = c) - 1

UPPERCASE == <<"A", "B", "C", "D", "E", "F", "G", "H", "I", "J", "K", "L", "M",
               "N", "O", "P", "Q", "R", "S", "T", "U", "V", "W", "X", "Y", "Z">>
LOWERCASE == <<"a", "b", "c", "d", "e", "f", "g", "h", "i", "j", "k", "l", "m",
               "n", "o", "p", "q", "r", "s", "t", "u", "v", "w", "x", "y", "z">>
lowerc(c) == IF c \in Range(UPPERCASE)
             THEN LOWERCASE[CHOOSE k \in 1..26 : UPPERCASE[k] = c] ELSE c
upperc(c) == IF c \in Range(LOWERCASE)
             THEN UPPERCASE[CHOOSE k \in 1..26 : LOWERCASE[k] = c] ELSE c
lower(s) == [k \in 1..Len(s) |-> lowerc(s[k])]
\* str.capitalize(): first character upper-cased, the rest lower-cased
capitalize(s) == [k \in 1..Len(s) |-> IF k = 1 THEN upperc(s[k]) ELSE lowerc(s[k])]

\* int(<digits>) of a string a \d+ group matched ("" stands for `mr or 0`)
RECURSIVE int(_)
int(s) == IF s = <<>> THEN 0
          ELSE 10 * int(SubSeq(s, 1, Len(s) - 1)) + DigitVal(s[Len(s)])

\* '%s' % n and '%d' % n of a non-negative int
RECURSIVE str(_)
str(n) == IF n < 10 THEN <<DIGITS[n + 1]>>
          ELSE str(n \div 10) \o <<DIGITS[(n % 10) + 1]>>

RECURSIVE lstrip(_)
lstrip(s) == IF s # <<>> /\ s[1] \in WS THEN lstrip(Tail(s)) ELSE s
RECURSIVE rstrip(_)
rstrip(s) == IF s # <<>> /\ s[Len(s)] \in WS
             THEN rstrip(SubSeq(s, 1, Len(s) - 1)) ELSE s
strip(s) == rstrip(lstrip(s))

\* the position of the first line break of s at or after p, Len(s) + 1 if
\* there is none
RECURSIVE linebreak(_, _)
linebreak(s, p) == IF p > Len(s) \/ s[p] \in {"\n", "\r"} THEN p
                   ELSE linebreak(s, p + 1)

\* str.splitlines(): breaks at \n, \r and \r\n; no last empty line
RECURSIVE splitlines(_)
RECURSIVE splitat(_, _)
splitlines(s) == IF s = <<>> THEN <<>> ELSE splitat(s, linebreak(s, 1))
\* the lines of s, whose first line break is at p
splitat(s, p) ==
    IF p > Len(s) THEN <<s>>
    ELSE <<SubSeq(s, 1, p - 1)>>
             \o splitlines(From(s, IF s[p] = "\r" /\ p < Len(s) /\ s[p + 1] = "\n"
                                   THEN p + 2 ELSE p + 1))

\* '\n'.join(lines)
RECURSIVE join(_)
join(lines) == IF lines = <<>> THEN <<>>
               ELSE IF Len(lines) = 1 THEN lines[1]
               ELSE lines[1] \o <<"\n">> \o join(Tail(lines))

(***************************************************************************)
(* re.match.  A pattern is a sequence of tokens, matched from position 1   *)
(* by backtracking as the re module does: a greedy repetition tries the    *)
(* longest run first, a lazy one the shortest, an alternation its branches *)
(* in order, an optional group is tried before it is skipped.  The match   *)
(* holds, for each group, the positions <<start, end>> of what it caught   *)
(* (end excluded), <<0, 0>> when the group took no part.                   *)
(***************************************************************************)
Lit(string) == [t |-> "lit", text |-> string]
Alt(strings) == [t |-> "alt", alts |-> strings]
Opt(pattern) == [t |-> "opt", pat |-> pattern]
Open(g) == [t |-> "open", g |-> g]
Close(g) == [t |-> "close", g |-> g]
\* $: the end of the string, or just before a \n that ends it
End == [t |-> "end"]
\* a repetition of a character class, at least min and, unless max is
\* negative, at most max times
Rep(cls, min, max, greedy) ==
    [t |-> "rep", cls |-> cls, min |-> min, max |-> max, greedy |-> greedy]
Star(cls) == Rep(cls, 0, -1, TRUE)
Plus(cls) == Rep(cls, 1, -1, TRUE)
Lazy(cls) == Rep(cls, 0, -1, FALSE)
One(cls) == Rep(cls, 1, 1, TRUE)

AnyOf(chars) == [neg |-> FALSE, chars |-> chars]
NoneOf(chars) == [neg |-> TRUE, chars |-> chars]
\* \s, \d (and [0-9]), and . that matches all but \n
Space == AnyOf(WS)
Digit == AnyOf(Range(DIGITS))
Dot == NoneOf({"\n"})

InClass(c, cls) == (c \in cls.chars) # cls.neg

NoMatch == [m |-> FALSE]
OrElse(first, second) == IF first.m THEN first ELSE second

\* whether string occurs in s at position p; ic is re.IGNORECASE
LitAt(s, p, string, ic) ==
    /\ p + Len(string) - 1 <= Len(s)
    /\ \A k \in 1..Len(string) :
           IF ic THEN lowerc(s[p + k - 1]) = lowerc(string[k])
           ELSE s[p + k - 1] = string[k]

\* the length of the run of characters of cls at position p, max at most
RECURSIVE RunLen(_, _, _, _)
RunLen(s, p, cls, max) ==
    IF max # 0 /\ p <= Len(s) /\ InClass(s[p], cls)
    THEN 1 + RunLen(s, p + 1, cls, max - 1) ELSE 0

RECURSIVE Match(_, _, _, _, _)
RECURSIVE TryAlt(_, _, _, _, _, _)
RECURSIVE TryRep(_, _, _, _, _, _, _, _)
Match(pat, s, p, caps, ic) ==
    IF pat = <<>> THEN [m |-> TRUE, caps |-> caps]
    ELSE CASE pat[1].t = "lit" ->
                IF LitAt(s, p, pat[1].text, ic)
                THEN Match(Tail(pat), s, p + Len(pat[1].text), caps, ic)
                ELSE NoMatch
           [] pat[1].t = "alt" -> TryAlt(pat[1].alts, Tail(pat), s, p, caps, ic)
           [] pat[1].t = "opt" ->
                OrElse(Match(pat[1].pat \o Tail(pat), s, p, caps, ic),
                       Match(Tail(pat), s, p, caps, ic))
           [] pat[1].t = "rep" ->
                TryRep(pat[1],
                       IF pat[1].greedy THEN RunLen(s, p, pat[1].cls, pat[1].max)
                       ELSE pat[1].min,
                       RunLen(s, p, pat[1].cls, pat[1].max),
                       Tail(pat), s, p, caps, ic)
           [] pat[1].t = "open" ->
                Match(Tail(pat), s, p, [caps EXCEPT ![pat[1].g] = <<p, 0>>], ic)
           [] pat[1].t = "close" ->
                Match(Tail(pat), s, p, [caps EXCEPT ![pat[1].g] = <<@[1], p>>], ic)
           [] pat[1].t = "end" ->
                IF p = Len(s) + 1 \/ (p = Len(s) /\ s[p] = "\n")
                THEN Match(Tail(pat), s, p, caps, ic)
                ELSE NoMatch
\* the first of the alternatives after which the rest of the pattern matches
TryAlt(alts, rest, s, p, caps, ic) ==
    IF alts = <<>> THEN NoMatch
    ELSE OrElse(IF LitAt(s, p, alts[1], ic)
                THEN Match(rest, s, p + Len(alts[1]), caps, ic)
                ELSE NoMatch,
                TryAlt(Tail(alts), rest, s, p, caps, ic))
\* the first count n of repetitions, from n on, after which the rest of the
\* pattern matches; run is the longest count there is
TryRep(tok, n, run, rest, s, p, caps, ic) ==
    IF n < tok.min \/ n > run THEN NoMatch
    ELSE OrElse(Match(rest, s, p + n, caps, ic),
                TryRep(tok, IF tok.greedy THEN n - 1 ELSE n + 1, run,
                       rest, s, p, caps, ic))

\* re.match(pattern, string[, re.IGNORECASE]), the pattern with n groups
re_match(pat, n, string, ic) ==
    Match(pat, string, 1, [g \in 1..n |-> <<0, 0>>], ic)
\* match.groups(); a group that took no part, None in the code, is the
\* empty string here: the code only tests such a group for truth
groups(string, match) ==
    [g \in DOMAIN match.caps |->
        IF match.caps[g] = <<0, 0>> THEN <<>>
        ELSE SubSeq(string, match.caps[g][1], match.caps[g][2] - 1)]

(***************************************************************************)
(* crop_line_padding                                                       *)
(***************************************************************************)
NonEmpty(lines) == {k \in 1..Len(lines) : lines[k] # <<>>}
\* the first loop: lines[i:] at the first line i that is not empty (NE are
\* the lines that are not empty)
CropStart(lines, NE) == IF NE = {} THEN lines ELSE From(lines, Min(NE))
\* the second loop: lines[:-i or len(lines)] at the last line that is not
\* empty, i lines before the end
CropEnd(lines, NE) ==
    IF NE = {} THEN lines
    ELSE IF Len(lines) - Max(NE) # 0
         THEN SubSeq(lines, 1, Len(lines) - (Len(lines) - Max(NE)))
         ELSE SubSeq(lines, 1, Len(lines))
CropStartOf(lines) == CropStart(lines, NonEmpty(lines))
CropEndOf(lines) == CropEnd(lines, NonEmpty(lines))
\* crop_line_padding given a list of lines
crop_line_padding(lines) ==
    CropEndOf(CropStartOf([k \in 1..Len(lines) |-> strip(lines[k])]))
\* crop_line_padding given a basestring
crop_line_padding_str(string) == crop_line_padding(splitlines(string))

(***************************************************************************)
(* class Change                                                            *)
(***************************************************************************)
KINDS == << <<"C", "h", "a", "n", "g", "e", "s">>,
            <<"B", "u", "g", "f", "i", "x">>,
            <<"F", "e", "a", "t", "u", "r", "e">>,
            <<"O", "p", "t", "i", "m", "i", "z", "a", "t", "i", "o", "n">> >>

\* Change.__init__(title, kind, mr), mr an int
Change(title, kind, mr) ==
    IF title = <<>> THEN Raise("AssertionError")
    ELSE IF kind \notin Range(KINDS) THEN Raise("AssertionError")
    ELSE Ok([title |-> title, kind |-> kind, mr |-> mr])

\* r'^\s*[\*-]?\s*(%s)\s*:\s*(.*?)\s*(?:\(!([0-9]+)\))?\s*$' % kinds
ChangeRegex ==
    << Star(Space), Opt(<<One(AnyOf({"*", "-"}))>>), Star(Space),
       Open(1), Alt(KINDS), Close(1), Star(Space), Lit(<<":">>), Star(Space),
       Open(2), Lazy(Dot), Close(2), Star(Space),
       Opt(<<Lit(<<"(", "!">>), Open(3), Plus(Digit), Close(3), Lit(<<")">>)>>),
       Star(Space), End >>

\* Change.from_string after re.match: kind, title, mr = match.groups()
ChangeOfGroups(g) == Change(g[2], capitalize(g[1]), int(g[3]))
ChangeOfMatch(string, match) ==
    IF ~match.m THEN Raise("AssertionError")
    ELSE ChangeOfGroups(groups(string, match))
Change_from_string(string) ==
    ChangeOfMatch(string, re_match(ChangeRegex, 3, string, TRUE))

Change_to_string_always_mr(c) ==
    <<"*", " ">> \o c.kind \o <<":", " ">> \o c.title
        \o <<" ", "(", "!">> \o str(c.mr) \o <<")">>

Change_to_string(c) ==
    <<"*", " ">> \o c.kind \o <<":", " ">> \o c.title
        \o (IF c.mr # 0 THEN <<" ", "(", "!">> \o str(c.mr) \o <<")">> ELSE <<>>)

(***************************************************************************)
(* class Version                                                           *)
(***************************************************************************)
MONTHS == << <<"J", "a", "n">>, <<"F", "e", "b">>, <<"M", "a", "r">>, <<"A", "p", "r">>, <<"M", "a", "y">>, <<"J", "u", "n">>,
             <<"J", "u", "l">>, <<"A", "u", "g">>, <<"S", "e", "p">>, <<"O", "c", "t">>, <<"N", "o", "v">>, <<"D", "e", "c">> >>

\* v\d+\.\d+\.\d+
VersionNumber == << Lit(<<"v">>), Plus(Digit), Lit(<<".">>), Plus(Digit),
                    Lit(<<".">>), Plus(Digit) >>
\* r'^v\d+\.\d+\.\d+(-.+)?$'
NameRegex ==
    VersionNumber \o << Opt(<<Open(1), Lit(<<"-">>), Plus(Dot), Close(1)>>), End >>

\* Version.__init__ after re.match
VersionOfMatch(match, name, day, month, year, notes) ==
    IF ~match.m THEN Raise("AssertionError")
    ELSE IF ~(0 < day /\ day < 32) THEN Raise("AssertionError")
    ELSE IF capitalize(month) \notin Range(MONTHS) THEN Raise("AssertionError")
    ELSE IF ~(2017 <= year /\ year < 2030) THEN Raise("AssertionError")
    ELSE Ok([name |-> name, prerelease |-> groups(name, match)[1] # <<>>,
             day |-> day, month |-> capitalize(month), year |-> year,
             notes |-> notes, changes |-> <<>>])
\* Version.__init__(name, day, month, year, notes), day and year ints
Version(name, day, month, year, notes) ==
    VersionOfMatch(re_match(NameRegex, 1, name, FALSE),
                   name, day, month, year, notes)

\* r'^##\s*(v\d+\.\d+\.\d+(?:-.+)?)\s*'
\* r'\(\s*(\d+)\s*(%s)\s*(\d+)\s*\)\s*$' % months
HeaderRegex ==
    << Lit(<<"#", "#">>), Star(Space), Open(1) >> \o VersionNumber
        \o << Opt(<<Lit(<<"-">>), Plus(Dot)>>), Close(1), Star(Space),
              Lit(<<"(">>), Star(Space), Open(2), Plus(Digit), Close(2),
              Star(Space), Open(3), Alt(MONTHS), Close(3), Star(Space),
              Open(4), Plus(Digit), Close(4), Star(Space), Lit(<<")">>),
              Star(Space), End >>
HeaderMatch(line) == re_match(HeaderRegex, 4, line, TRUE)

\* re.match(r'^###\s*changes\s*$', line, re.IGNORECASE)
ChangesHeader(line) ==
    re_match(<< Lit(<<"#", "#", "#">>), Star(Space),
                Lit(<<"c", "h", "a", "n", "g", "e", "s">>), Star(Space), End >>,
             0, line, TRUE).m

\* first and, if first returned, then the rest: the list of what they
\* returned, or the first error raised
Cons(first, rest) ==
    IF first.err # "" THEN first
    ELSE IF rest.err # "" THEN rest
    ELSE Ok(<<first.val>> \o rest.val)

\* the loop over version.changes.append(Change.from_string(line)): the
\* first line that does not parse raises
RECURSIVE ParseChanges(_)
ParseChanges(lines) ==
    IF lines = <<>> THEN Ok(<<>>)
    ELSE Cons(Change_from_string(lines[1]), ParseChanges(Tail(lines)))

\* the index, from 1, of the first "### Changes" line of lines at or after
\* k; Len(lines) + 1 if there is none
RECURSIVE ChangesAt(_, _)
ChangesAt(lines, k) ==
    IF k > Len(lines) \/ ChangesHeader(lines[k]) THEN k
    ELSE ChangesAt(lines, k + 1)

\* the end of Version.from_string: version.changes of the lines parsed
VersionWithChanges(made, changes) ==
    IF made.err # "" THEN made
    ELSE IF changes.err # "" THEN changes
    ELSE Ok([made.val EXCEPT !.changes = changes.val])
\* Version.from_string after the for loop, which ended at line h (the
\* "### Changes" line it broke on, or past the last line): i, counted from
\* 1 here, is left at the line it broke on, else at the last line
VersionAfterLoop(g, lines, h) ==
    VersionWithChanges(
        Version(g[1], int(g[2]), g[3], int(g[4]), join(SubSeq(lines, 1, h - 1))),
        ParseChanges(SelectSeq(
            crop_line_padding(From(lines, (IF h <= Len(lines) THEN h
                                           ELSE Len(lines)) + 1)),
            LAMBDA l : l # <<>>)))
\* Version.from_string after re.match, lines being
\* crop_line_padding(lines[1:])
VersionOfHeader(header, match, lines) ==
    IF ~match.m THEN Raise("AssertionError")
    \* no line after the header: the loop never binds i
    ELSE IF lines = <<>> THEN Raise("UnboundLocalError")
    ELSE VersionAfterLoop(groups(header, match), lines, ChangesAt(lines, 1))
VersionOfLines(lines) ==
    IF lines = <<>> THEN Raise("IndexError")
    ELSE VersionOfHeader(lines[1], HeaderMatch(lines[1]),
                         crop_line_padding(Tail(lines)))
Version_from_string(string) == VersionOfLines(crop_line_padding_str(string))

RECURSIVE ChangeLines(_)
ChangeLines(changes) ==
    IF changes = <<>> THEN <<>>
    ELSE Change_to_string(changes[1]) \o <<"\n">> \o ChangeLines(Tail(changes))

Version_to_string(v) ==
    <<"#", "#", " ">> \o v.name \o <<" ", "(">> \o str(v.day) \o <<" ">> \o v.month
        \o <<" ">> \o str(v.year) \o <<")", "\n", "\n">>
        \o (IF v.notes # <<>> THEN v.notes \o <<"\n", "\n">> ELSE <<>>)
        \o <<"#", "#", "#", " ", "C", "h", "a", "n", "g", "e", "s", "\n", "\n">>
        \o ChangeLines(v.changes)

(***************************************************************************)
(* class Changelog                                                         *)
(***************************************************************************)
\* re.match('^#\s*changelog\s*$', line.lower())
TopHeader(line) ==
    re_match(<< Lit(<<"#">>), Star(Space),
                Lit(<<"c", "h", "a", "n", "g", "e", "l", "o", "g">>),
                Star(Space), End >>,
             0, lower(line), FALSE).m

LevelTwo_any_header(line) == re_match(<< Lit(<<"#", "#">>) >>, 0, line, FALSE).m

\* re.match('^##[^#]', line)
LevelTwo(line) ==
    re_match(<< Lit(<<"#", "#">>), One(NoneOf({"#"})) >>, 0, line, FALSE).m

\* the sections loop: a level two header opens a section, every other line
\* joins the open one; a line before any section fails the assert
RECURSIVE Sections(_, _)
Sections(lines, sections) ==
    IF lines = <<>> THEN Ok(sections)
    ELSE IF LevelTwo(lines[1])
         THEN Sections(Tail(lines), Append(sections, <<lines[1]>>))
    ELSE IF sections = <<>> THEN Raise("AssertionError")
    ELSE Sections(Tail(lines),
                  [sections EXCEPT ![Len(sections)] = Append(@, lines[1])])

\* the loop over changelog.versions.append(Version.from_string(...))
RECURSIVE ParseVersions(_)
ParseVersions(sections) ==
    IF sections = <<>> THEN Ok(<<>>)
    ELSE Cons(Version_from_string(join(sections[1])),
              ParseVersions(Tail(sections)))

\* Changelog.from_string after the loops
ChangelogOfVersions(versions) ==
    IF versions.err # "" THEN versions ELSE Ok([versions |-> versions.val])
ChangelogOfSections(sections) ==
    IF sections.err # "" THEN sections
    ELSE ChangelogOfVersions(ParseVersions(sections.val))
ChangelogOfLines(lines) ==
    IF lines = <<>> THEN Ok([versions |-> <<>>])
    ELSE IF ~TopHeader(lines[1]) THEN Raise("AssertionError")
    ELSE ChangelogOfSections(Sections(crop_line_padding(Tail(lines)), <<>>))
Changelog_from_string(string) == ChangelogOfLines(crop_line_padding_str(string))

reversed(seq) == [k \in 1..Len(seq) |-> seq[Len(seq) + 1 - k]]

\* '\n\n'.join(map(Version.to_string, versions))
RECURSIVE JoinVersions(_)
JoinVersions(versions) ==
    IF versions = <<>> THEN <<>>
    ELSE IF Len(versions) = 1 THEN Version_to_string(versions[1])
    ELSE Version_to_string(versions[1]) \o <<"\n", "\n">>
             \o JoinVersions(Tail(versions))

Changelog_to_string(log) ==
    <<"#", " ", "C", "h", "a", "n", "g", "e", "l", "o", "g", "\n", "\n", "\n">> \o JoinVersions(reversed(log.versions))

\* Changelog.from_file(path): a file that cannot be opened gives the empty
\* Changelog
Changelog_from_file(f) ==
    IF ~f.exists THEN Ok([versions |-> <<>>]) ELSE Changelog_from_string(f.text)

(***************************************************************************)
(* The runs of main: what Gitlab holds, the changelog file, the arguments. *)
(***************************************************************************)
SeqsUpTo(P, n) == UNION {[1..k -> P] : k \in 0..n}

\* a merged merge request and its merge commit: the times of the two
Times == 1..MaxTime
MrKinds == {k \in [target_branch : {"master", "feature"}, updated_at : Times,
                   commit_created_at : Times] :
                k.commit_created_at <= k.updated_at}
\* 'order_by': 'updated_at', 'sort': 'desc'
Sorted(m) == \A k \in 1..(Len(m) - 1) : m[k].updated_at >= m[k + 1].updated_at
WithIds(m) ==
    [k \in 1..Len(m) |->
        [id |-> k, title |-> <<"m", "r">> \o str(k),
         target_branch |-> m[k].target_branch, updated_at |-> m[k].updated_at,
         commit_created_at |-> m[k].commit_created_at]]
MergedLists(n) == {WithIds(m) : m \in {s \in SeqsUpTo(MrKinds, n) : Sorted(s)}}

\* the committed_date of the last version's tag, None when Gitlab has no
\* such tag
TagArgs == {None, 2}
\* args.branches: the default, or no branches in a direct call of get_mrs
DefaultBranches == << "master", "staging" >>

\* a Version as Version(...) and version.changes.append(Change(...)) make it
VersionOf(name, changes) ==
    [Version(name, 1, MONTHS[1], 2017, <<>>).val EXCEPT !.changes = changes]
V100 == VersionOf(<<"v", "1", ".", "0", ".", "0">>,
                  <<Change(<<"a">>, KINDS[2], 7).val>>)
V110 == VersionOf(<<"v", "1", ".", "1", ".", "0">>, <<>>)
V110rc1 == VersionOf(<<"v", "1", ".", "1", ".", "0", "-", "r", "c", "1">>,
                     <<Change(<<"b">>, KINDS[1], 8).val,
                       Change(<<"c">>, KINDS[3], 0).val>>)
\* the changelog file before the first run: none, an empty one, or one that
\* to_file wrote, newest version first
InitialFiles ==
    { [exists |-> FALSE, text |-> <<>>], [exists |-> TRUE, text |-> <<>>] }
    \cup {[exists |-> TRUE, text |-> Changelog_to_string([versions |-> vs])] :
            vs \in { <<V100>>, <<V100, V110>>, <<V100, V110rc1>> }}

\* the command line: show, or add <version>
VersionArgs == { <<"v", "1", ".", "2", ".", "0">>, <<"1", ".", "2">> }
Args == { [action |-> "show", version |-> <<>>] }
        \cup {[action |-> "add", version |-> v] : v \in VersionArgs}

\* the names of main and get_mrs before they are bound
Unbound ==
    /\ changelog = [versions |-> <<>>]
    /\ version = <<>>
    /\ last_version = <<>>
    /\ since = None
    /\ mrs = <<>>
    /\ list_mrs = <<>>
    /\ page = 1
    /\ i = 0
    /\ text = <<>>
\* no run of main: the parser is called on its own
NotRunning == file = [exists |-> FALSE, text |-> <<>>] /\ Unbound

(***************************************************************************)
(* get_mrs.  The merge requests Gitlab holds are arg.merged, in the order  *)
(* the query asks for (updated_at, descending); a time is a number.        *)
(***************************************************************************)
\* batch = gitlab.get('merge_requests', {..., 'per_page': per_page,
\*                                        'page': page})
Batch(merged, p) ==
    SubSeq(merged, (p - 1) * per_page + 1, Min({p * per_page, Len(merged)}))

\* the place in batch of the first mr with updated_at < since, where the
\* for loop breaks; Len(batch) + 1 if it does not break
RECURSIVE BreakAt(_, _, _)
BreakAt(batch, k, t) ==
    IF k > Len(batch) \/ (t # None /\ batch[k].updated_at < t) THEN k
    ELSE BreakAt(batch, k + 1, t)

\* what the for loop over batch appends to mrs, breaking at line b
Appended(batch, b, branches) ==
    SelectSeq(SubSeq(batch, 1, b - 1),
              LAMBDA mr : ~(branches # <<>> /\ mr.target_branch \notin Range(branches)))

\* one turn of the while loop, over the batch of this page, breaking at b
FetchBatch(batch, b) ==
    /\ mrs' = mrs \o Appended(batch, b, arg.branches)
    /\ IF b <= Len(batch) \/ Len(batch) < per_page
       THEN /\ page' = page
            /\ IF since # None
               THEN /\ pc' = "merge_commits"
                    /\ list_mrs' = mrs'
                    /\ i' = 0
               ELSE /\ pc' = "got_mrs"
                    /\ UNCHANGED <<list_mrs, i>>
       ELSE /\ page' = page + 1
            /\ pc' = "get_mrs"
            /\ UNCHANGED <<list_mrs, i>>

FetchPage ==
    /\ pc = "get_mrs"
    /\ FetchBatch(Batch(arg.merged, page),
                  BreakAt(Batch(arg.merged, page), 1, since))
    /\ UNCHANGED <<arg, res, file, changelog, version, last_version, since, text>>

\* list.pop(i), i counted from 0
pop(list, k) == SubSeq(list, 1, k) \o SubSeq(list, k + 2, Len(list))

\* one turn of `for i, mr in enumerate(list(mrs))`
CheckCommit ==
    /\ pc = "merge_commits"
    /\ i < Len(list_mrs)
    /\ IF list_mrs[i + 1].commit_created_at < since
       THEN IF i < Len(mrs)
            THEN /\ mrs' = pop(mrs, i)
                 /\ i' = i + 1
                 /\ UNCHANGED <<pc, res>>
            \* pop index out of range
            ELSE /\ pc' = "raised"
                 /\ res' = Raise("IndexError")
                 /\ UNCHANGED <<mrs, i>>
       ELSE /\ i' = i + 1
            /\ UNCHANGED <<pc, res, mrs>>
    /\ UNCHANGED <<arg, file, changelog, version, last_version, since, list_mrs,
                   page, text>>

\* the for loop is over: return mrs
ReturnMrs ==
    /\ pc = "merge_commits"
    /\ i = Len(list_mrs)
    /\ pc' = "got_mrs"
    /\ UNCHANGED <<arg, res, file, changelog, version, last_version, since, mrs,
                   list_mrs, page, i, text>>

(***************************************************************************)
(* main                                                                    *)
(***************************************************************************)
\* datetime.datetime.now()
now == [day |-> 1, month |-> 11, year |-> 2026]

\* the lines of main that raise: the exception leaves main
Raised(r) ==
    /\ pc' = "raised"
    /\ res' = r

\* args = parse_args(); changelog = Changelog.from_file(args.file)
LoadAs(r) ==
    IF r.err # "" THEN Raised(r) /\ UNCHANGED changelog
    ELSE /\ pc' = "loaded"
         /\ changelog' = r.val
         /\ UNCHANGED res
Load ==
    /\ pc = "main"
    /\ \E args \in Args : arg' = [arg EXCEPT !.action = args.action,
                                             !.version = args.version]
    /\ LoadAs(Changelog_from_file(file))
    /\ UNCHANGED <<file, version, last_version, since, mrs, list_mrs, page, i, text>>

\* args.action == 'show': changelog.show()
Show ==
    /\ pc = "loaded"
    /\ arg.action = "show"
    /\ res' = Ok(Changelog_to_string(changelog))
    /\ pc' = "done"
    /\ UNCHANGED <<arg, file, changelog, version, last_version, since, mrs,
                   list_mrs, page, i, text>>

\* args.action == 'add', up to the call of get_mrs; v is what
\* Version(args.version, ...) returns
AddVersion(v) ==
    IF v.err # "" THEN Raised(v) /\ UNCHANGED <<version, last_version, since>>
    ELSE /\ version' = v.val
         /\ IF changelog.versions # <<>>
            THEN /\ last_version' = <<changelog.versions[1]>>
                 /\ IF arg.tag = None
                    \* gitlab.get('repository/tags/...') finds no such tag
                    THEN Raised(Raise("Exception")) /\ UNCHANGED since
                    ELSE /\ since' = arg.tag
                         /\ pc' = "get_mrs"
                         /\ UNCHANGED res
            ELSE /\ UNCHANGED <<last_version, since, res>>
                 /\ pc' = "get_mrs"
Add ==
    /\ pc = "loaded"
    /\ arg.action = "add"
    /\ AddVersion(Version(arg.version, now.day, MONTHS[now.month], now.year, <<>>))
    \* get_mrs starts: mrs = [], page = 1
    /\ mrs' = <<>>
    /\ page' = 1
    /\ UNCHANGED <<arg, file, changelog, list_mrs, i, text>>

\* the loop over version.changes.append(Change(mr['title'], mr=mr['id']))
RECURSIVE MrChanges(_)
MrChanges(ms) ==
    IF ms = <<>> THEN Ok(<<>>)
    ELSE Cons(Change(ms[1].title, KINDS[1], ms[1].id), MrChanges(Tail(ms)))

\* from the return of get_mrs to the while loop; changes is what the loop
\* over mrs made
DraftWith(changes) ==
    IF changes.err # "" THEN Raised(changes) /\ UNCHANGED <<version, text>>
    ELSE /\ version' = [version EXCEPT !.changes = changes.val]
         /\ IF last_version # <<>> /\ last_version[1].prerelease
            \* changelog.versions[-1] is a Version, which has no pop
            THEN /\ text' = Version_to_string(version')
                                \o ChangeLines(last_version[1].changes)
                 /\ Raised(Raise("AttributeError"))
            ELSE /\ text' = Version_to_string(version')
                 /\ pc' = "drafted"
                 /\ UNCHANGED res
Draft ==
    /\ pc = "got_mrs"
    /\ DraftWith(MrChanges(mrs))
    /\ UNCHANGED <<arg, file, changelog, last_version, since, mrs, list_mrs,
                   page, i>>

\* text = editor(text): the user leaves the text as it is or empties it
editor(t, keep) == IF keep THEN t ELSE <<>>

\* one turn of the while loop up to the prompt; v is what
\* Version.from_string(text) returns
EditWith(t, v) ==
    /\ text' = t
    /\ IF v.err # ""
       THEN /\ pc' = "prompt"
            /\ res' = v
            /\ UNCHANGED <<version, changelog>>
       ELSE /\ version' = v.val
            /\ changelog' = [changelog EXCEPT !.versions = Append(@, v.val)]
            /\ pc' = "confirm"
            /\ UNCHANGED res
Edit ==
    /\ pc \in {"drafted", "editing"}
    /\ \E keep \in BOOLEAN :
           EditWith(editor(text, keep), Version_from_string(editor(text, keep)))
    /\ UNCHANGED <<arg, file, last_version, since, mrs, list_mrs, page, i>>

\* prompt_boolean("Re-edit changelog", default=True) answered yes
ReEdit ==
    /\ pc = "prompt"
    /\ pc' = "editing"
    /\ UNCHANGED <<arg, res, file, changelog, version, last_version, since, mrs,
                   list_mrs, page, i, text>>

\* ... answered no: sys.exit(1)
Exit ==
    /\ pc = "prompt"
    /\ pc' = "exited"
    /\ res' = Raise("SystemExit")
    /\ UNCHANGED <<arg, file, changelog, version, last_version, since, mrs,
                   list_mrs, page, i, text>>

\* prompt_boolean("Do you wish to update ...") answered yes:
\* changelog.to_file(args.file)
Update ==
    /\ pc = "confirm"
    /\ file' = [exists |-> TRUE, text |-> Changelog_to_string(changelog)]
    /\ pc' = "done"
    /\ UNCHANGED <<arg, res, changelog, version, last_version, since, mrs,
                   list_mrs, page, i, text>>

\* ... answered no
Decline ==
    /\ pc = "confirm"
    /\ pc' = "done"
    /\ UNCHANGED <<arg, res, file, changelog, version, last_version, since, mrs,
                   list_mrs, page, i, text>>

\* the program is run again, on the file as the last run left it
Rerun ==
    /\ pc \in {"done", "raised", "exited"}
    /\ arg.run < MaxRuns
    /\ arg' = [arg EXCEPT !.run = @ + 1]
    /\ pc' = "main"
    /\ res' = <<>>
    /\ changelog' = [versions |-> <<>>]
    /\ version' = <<>>
    /\ last_version' = <<>>
    /\ since' = None
    /\ mrs' = <<>>
    /\ list_mrs' = <<>>
    /\ page' = 1
    /\ i' = 0
    /\ text' = <<>>
    /\ UNCHANGED file
Init ==
    /\ pc = "main"
    /\ arg \in [merged : MergedLists(MaxDraftMrs), branches : {DefaultBranches},
                tag : TagArgs, run : {1}, action : {""}, version : {<<>>}]
    /\ res = <<>>
    /\ file \in InitialFiles
    /\ Unbound

Next ==
    \/ Load \/ Show \/ Add
    \/ FetchPage \/ CheckCommit \/ ReturnMrs
    \/ Draft \/ Edit \/ ReEdit \/ Exit \/ Update \/ Decline
    \/ Rerun

Spec == Init /\ [][Next]_vars

\* get_mrs(gitlab, branches, since) called on its own
InitGetMrs ==
    /\ pc = "get_mrs"
    /\ arg \in [merged : MergedLists(MaxMrs), branches : {DefaultBranches, <<>>}]
    /\ since \in TagArgs
    /\ res = <<>>
    /\ file = [exists |-> FALSE, text |-> <<>>]
    /\ changelog = [versions |-> <<>>]
    /\ version = <<>>
    /\ last_version = <<>>
    /\ mrs = <<>>
    /\ list_mrs = <<>>
    /\ page = 1
    /\ i = 0
    /\ text = <<>>

NextGetMrs == FetchPage \/ CheckCommit \/ ReturnMrs

SpecGetMrs == InitGetMrs /\ [][NextGetMrs]_vars

(***************************************************************************)
(* Change round trips: the inputs and the two operations.                  *)
(***************************************************************************)
TitlePieces == { <<"x">>, <<" ">>, <<"(", "!", "5", ")">>, <<"(", "!">>,
                 <<"\n">>, <<"0">> }

\* the concatenations of at most n pieces of P
Extend(C, P) == C \cup {c \o p : c \in C, p \in P}
RECURSIVE Concats(_, _)
Concats(P, n) == IF n = 0 THEN {<<>>} ELSE Extend(Concats(P, n - 1), P)

Titles == Concats(TitlePieces, MaxTitleParts)
KindArgs == Range(KINDS) \cup { <<"H", "o", "t", "f", "i", "x">> }
\* the digits of a merge request reference; <<>> is no reference (mr = 0)
MrRefs == { <<>>, <<"0">>, <<"7">>, <<"0", "7">>, <<"1", "2">> }

InitChange ==
    /\ pc = "start"
    /\ arg \in [title : Titles, kind : KindArgs, ref : MrRefs]
    /\ res = <<>>
    /\ NotRunning

\* what Change.from_string(change.to_string()) returns for the change made
MadeAndBack(c) ==
    [made |-> c,
     back |-> IF c.err = "" THEN Change_from_string(Change_to_string(c.val))
              ELSE Raise("none")]
\* Change(...) and then Change.from_string(change.to_string())
ChangeBuild ==
    /\ pc = "start"
    /\ res' = MadeAndBack(Change(arg.title, arg.kind, int(arg.ref)))
    /\ pc' = "built"
    /\ UNCHANGED <<arg, locals>>
\* the line "* <Kind>: <title>[ (!<mr>)]"
Line(a) == <<"*", " ">> \o a.kind \o <<":", " ">> \o a.title
           \o (IF a.ref = <<>> THEN <<>> ELSE <<" ", "(", "!">> \o a.ref \o <<")">>)

\* what to_string() returns for the change parsed
ParsedAndAgain(c) ==
    [parsed |-> c, again |-> IF c.err = "" THEN Change_to_string(c.val) ELSE <<>>]
\* Change.from_string(line) and then to_string() of what it returned
ChangeParse ==
    /\ pc = "start"
    /\ res' = ParsedAndAgain(Change_from_string(Line(arg)))
    /\ pc' = "parsed"
    /\ UNCHANGED <<arg, locals>>
NextChange == ChangeBuild \/ ChangeParse

SpecChange == InitChange /\ [][NextChange]_vars

(***************************************************************************)
(* Version construction and round trips: the inputs and the operations.    *)
(***************************************************************************)
NameArgs == { <<"v", "1", ".", "0", ".", "0">>,
            <<"v", "1", "0", ".", "2", ".", "3">>,
            <<"v", "1", ".", "0", ".", "0", "-", "r", "c", "1">>,
            <<"v", "1", ".", "0", ".", "0", "-", "a", " ", "b">>,
            <<"v", "1", ".", "0", ".", "0", "\n">>,
            <<"v", "1", ".", "0", ".", "0", "-", "a", "\n", "b">>,
            <<"v", "1", ".", "0">>,
            <<"V", "1", ".", "0", ".", "0">>,
            <<"v", "1", ".", "0", ".", "0", "-">>,
            <<"v", "1", ".", "0", ".", "0", "r", "c", "1">>,
            <<>> }
DayArgs == {0, 1, 31, 32}
MonthArgs == { <<"J", "a", "n">>, <<"d", "E", "C">>, <<"F", "o", "o">> }
YearArgs == {2016, 2017, 2029, 2030}
NotesArgs == { <<>>,
             <<"a">>,
             <<"a", "\n", "\n", "b">>,
             <<" ", "a">>,
             <<"a", " ", "b">> }
\* the values of version.changes: lists of Changes the constructor returned
ChangeArgs == { <<>>,
                <<Change(<<"x">>, KINDS[2], 7).val>>,
                <<Change(<<"x">>, KINDS[2], 7).val, Change(<<"y", " ", "z">>, KINDS[1], 0).val>> }

InitVersion ==
    /\ pc = "start"
    /\ arg \in [name : NameArgs, day : DayArgs, month : MonthArgs,
                year : YearArgs, notes : NotesArgs, changes : ChangeArgs]
    /\ res = <<>>
    /\ NotRunning

\* version = Version(name, day, month, year, notes)
VersionInit ==
    /\ pc = "start"
    /\ res' = [made |-> Version(arg.name, arg.day, arg.month, arg.year, arg.notes)]
    /\ pc' = "constructed"
    /\ UNCHANGED <<arg, locals>>

\* what Version.from_string(version.to_string()) returns
VersionAndBack(made) ==
    [made |-> Ok(made), back |-> Version_from_string(Version_to_string(made))]
\* version.changes.append(...) for each change, then
\* Version.from_string(version.to_string())
VersionRoundTrip ==
    /\ pc = "constructed"
    /\ res.made.err = ""
    /\ res' = VersionAndBack([res.made.val EXCEPT !.changes = arg.changes])
    /\ pc' = "back"
    /\ UNCHANGED <<arg, locals>>
NextVersion == VersionInit \/ VersionRoundTrip

SpecVersion == InitVersion /\ [][NextVersion]_vars

(***************************************************************************)
(* Changelog parsing and round trips: the inputs and the operations.       *)
(***************************************************************************)
\* how a changelog text starts: with nothing, with the top header, with
\* blank lines and the top header in another case, with another line
DocHeads == { <<>>,
              << <<"#", " ", "C", "h", "a", "n", "g", "e", "l", "o", "g">> >>,
              << <<>>, <<" ", "#", "c", "h", "a", "n", "g", "e", "l", "o", "g">> >>,
              << <<"n", "o", "t", "e">> >> }
\* the lines that follow
DocLines == { <<>>, <<" ">>, <<"n", "o", "t", "e">>,
              <<"#", "#", " ", "v", "1", ".", "0", ".", "0", " ", "(", "1", " ", "J", "a", "n", " ", "2", "0", "1", "7", ")">>,
              <<"#", "#", "#", " ", "C", "h", "a", "n", "g", "e", "s">> }
\* the texts given to Changelog.from_string, as their lines
DocArgs == {[lines |-> h \o b] : h \in DocHeads, b \in SeqsUpTo(DocLines, MaxLines)}

\* Versions as Version(...) and version.changes.append(Change(...)) build them
VersionVals ==
    {[Version(n, 1, MONTHS[1], 2017, notes).val EXCEPT !.changes = c] :
        n \in { <<"v", "1", ".", "0", ".", "0">>,
               <<"v", "1", ".", "1", ".", "0">>,
               <<"v", "2", ".", "0", ".", "0", "-", "r", "c", "1">> },
        notes \in {<<>>, <<"a">>}, c \in ChangeArgs}
\* Changelogs as changelog.versions.append(version) builds them
LogArgs == [versions : SeqsUpTo(VersionVals, MaxVersions)]

InitChangelog ==
    /\ pc = "start"
    /\ arg \in DocArgs \cup LogArgs
    /\ res = <<>>
    /\ NotRunning

\* Changelog.from_string(string)
ChangelogParse ==
    /\ pc = "start"
    /\ "lines" \in DOMAIN arg
    /\ res' = Changelog_from_string(join(arg.lines))
    /\ pc' = "parsed"
    /\ UNCHANGED <<arg, locals>>

\* Changelog.from_string(changelog.to_string())
ChangelogRoundTrip ==
    /\ pc = "start"
    /\ "versions" \in DOMAIN arg
    /\ res' = [back |-> Changelog_from_string(Changelog_to_string(arg))]
    /\ pc' = "back"
    /\ UNCHANGED <<arg, locals>>

NextChangelog == ChangelogParse \/ ChangelogRoundTrip

SpecChangelog == InitChangelog /\ [][NextChangelog]_vars

(***************************************************************************)
(* Version texts parsed, written and parsed again: the inputs and the      *)
(* operations.                                                             *)
(***************************************************************************)
\* the header line a version text starts with
TextHeads == { <<"#", "#", " ", "v", "1", ".", "0", ".", "0", " ", "(", "1", " ", "J", "a", "n", " ", "2", "0", "1", "7", ")">>,
               <<"#", "#", " ", "v", "1", ".", "0", ".", "0", "-", "r", "c", "1", " ", "(", "1", " ", "J", "a", "n", " ", "2", "0", "1", "7", ")">>,
               <<"#", "#", "v", "1", ".", "0", ".", "0", "(", " ", "2", " ", "f", "e", "b", " ", "2", "0", "1", "8", " ", ")">> }
\* the lines that follow
TextLines == { <<>>, <<"n", "o", "t", "e">>,
               <<"#", "#", "#", " ", "C", "h", "a", "n", "g", "e", "s">>,
               <<"*", " ", "B", "u", "g", "f", "i", "x", ":", " ", "x", " ", "(", "!", "7", ")">>,
               <<"-", " ", "f", "e", "a", "t", "u", "r", "e", ":", " ", "y">> }
\* the texts given to Version.from_string, as their lines
TextArgs == {[lines |-> <<h>> \o b] : h \in TextHeads, b \in SeqsUpTo(TextLines, MaxLines)}

InitText ==
    /\ pc = "start"
    /\ arg \in TextArgs
    /\ res = <<>>
    /\ NotRunning

\* v = Version.from_string(t)
TextParse ==
    /\ pc = "start"
    /\ res' = [v |-> Version_from_string(join(arg.lines))]
    /\ pc' = "parsed"
    /\ UNCHANGED <<arg, locals>>

\* v2 = Version.from_string(v.to_string())
TextReparse ==
    /\ pc = "parsed"
    /\ res.v.err = ""
    /\ res' = [v |-> res.v,
               v2 |-> Version_from_string(Version_to_string(res.v.val))]
    /\ pc' = "reparsed"
    /\ UNCHANGED <<arg, locals>>

NextText == TextParse \/ TextReparse

SpecText == InitText /\ [][NextText]_vars

(***************************************************************************)
(* C3.  Change round trip.                                                 *)
(***************************************************************************)
\* a title that ends with a merge request reference, "(!<digits>)"
EndsWithMrRef(t) ==
    \E p \in 1..Len(t) :
        /\ Len(t) >= p + 3 /\ t[p] = "(" /\ t[p + 1] = "!" /\ t[Len(t)] = ")"
        /\ \A k \in (p + 2)..(Len(t) - 1) : IsDigit(t[k])

TrimmedTitle(t) == t # <<>> /\ t[1] \notin WS /\ t[Len(t)] \notin WS

\* C3 as stated: a Change the constructor accepts with a trimmed title
\* comes back from from_string(to_string()) with the same title, kind and
\* mr, and an accepted line "* <Kind>: <title>[ (!<mr>)]" is reproduced
\* exactly by to_string() of the Change parsed from it.
C3_ChangeRoundTrip ==
    /\ (pc = "built" /\ res.made.err = "" /\ TrimmedTitle(arg.title))
          => (res.back.err = "" /\ res.back.val = res.made.val)
    /\ (pc = "parsed" /\ res.parsed.err = "" /\ TrimmedTitle(arg.title)
            /\ arg.kind \in Range(KINDS))
          => res.again = Line(arg)

\* C3 as amended: the same, for titles that hold no line break and that do
\* not themselves end with "(!<digits>)" when there is no reference (mr = 0),
\* and, for lines, a reference written as a positive decimal number with no
\* leading zero.
C3_ChangeRoundTripAmended ==
    /\ (pc = "built" /\ res.made.err = "" /\ TrimmedTitle(arg.title)
            /\ "\n" \notin Range(arg.title)
            /\ (int(arg.ref) = 0 => ~EndsWithMrRef(arg.title)))
          => (res.back.err = "" /\ res.back.val = res.made.val)
    /\ (pc = "parsed" /\ res.parsed.err = "" /\ TrimmedTitle(arg.title)
            /\ arg.kind \in Range(KINDS)
            /\ (arg.ref = <<>> => ~EndsWithMrRef(arg.title))
            /\ (arg.ref # <<>> => arg.ref[1] # "0"))
          => res.again = Line(arg)

\* a title with a reference inside it and a reference after it was parsed
\* from its line and written back
C3_Witness ==
    /\ pc = "parsed" /\ res.parsed.err = ""
    /\ arg.title = <<"x", " ", "(", "!", "5", ")">> /\ arg.ref = <<"1", "2">>
    /\ res.parsed.val.mr = 12 /\ res.again = Line(arg)

(***************************************************************************)
(* C7.  Version construction.                                              *)
(***************************************************************************)
\* v<major>.<minor>.<patch>[-<suffix>]: three runs of digits and, if
\* anything follows, a dash and a suffix that is not empty
GrammarName(name) ==
    \E p, j, k \in 1..(Len(name) + 1) :
        /\ 2 < p /\ p + 1 < j /\ j + 1 < k
        /\ name[1] = "v" /\ name[p] = "." /\ name[j] = "."
        /\ \A d \in (2..(p - 1)) \cup ((p + 1)..(j - 1)) \cup ((j + 1)..(k - 1)) :
               IsDigit(name[d])
        /\ \/ k = Len(name) + 1
           \/ k < Len(name) /\ name[k] = "-"

ValidVersionArgs(a) ==
    /\ GrammarName(a.name)
    /\ a.day \in 1..31
    /\ \E k \in 1..Len(MONTHS) : lower(MONTHS[k]) = lower(a.month)
    /\ 2017 <= a.year /\ a.year < 2030

\* C7: Version(...) returns exactly when the name matches
\* v<major>.<minor>.<patch>[-<suffix>], day is in 1..31, month is one of the
\* twelve abbreviations in any case and year is in [2017, 2030); otherwise it
\* fails with the assertion error; and prerelease is true iff the name has a
\* -suffix.
C7_VersionInit ==
    pc = "constructed" =>
        /\ res.made.err = "" <=> ValidVersionArgs(arg)
        /\ res.made.err \in {"", "AssertionError"}
        /\ res.made.err = "" => (res.made.val.prerelease <=> "-" \in Range(arg.name))

(***************************************************************************)
(* C2.  Notes through Version.to_string and Version.from_string.           *)
(***************************************************************************)
NoHeaderLines(notes) ==
    \A l \in Range(splitlines(notes)) : strip(l) = <<>> \/ strip(l)[1] # "#"

\* C2: the notes of Version.from_string(v.to_string()) are exactly v.notes,
\* for notes without header lines (stated for the versions that parse back,
\* so that only the notes decide it).
C2_NotesPreserved ==
    (pc = "back" /\ res.back.err = "" /\ NoHeaderLines(arg.notes))
        => res.back.val.notes = arg.notes

(***************************************************************************)
(* C1.  Changelog round trip.                                              *)
(***************************************************************************)
SameVersion(v, w) ==
    /\ v.name = w.name /\ v.day = w.day /\ v.month = w.month /\ v.year = w.year
    /\ v.changes = w.changes

\* C1: Changelog.from_string(c.to_string()) succeeds and yields as many
\* versions as c has, in the reverse of c.versions, each with the name, day,
\* month, year and changes of its counterpart.
C1_RoundTripOrder ==
    pc = "back" =>
        /\ res.back.err = ""
        /\ Len(res.back.val.versions) = Len(arg.versions)
        /\ \A k \in 1..Len(arg.versions) :
               SameVersion(res.back.val.versions[k],
                           arg.versions[Len(arg.versions) + 1 - k])

(***************************************************************************)
(* C4.  Empty and blank documents.                                         *)
(***************************************************************************)
\* C4: Changelog.from_string of an empty text, or of a text of whitespace
\* and blank lines only, returns a Changelog with no versions.
C4_BlankDocument ==
    (pc = "parsed" /\ Range(join(arg.lines)) \subseteq WS)
        => (res.err = "" /\ res.val.versions = <<>>)

(***************************************************************************)
(* C5.  The one kind of error.                                             *)
(***************************************************************************)
\* C5: parsing a text returns, or fails with the assertion error that is the
\* code's FormatError; it raises nothing else.
C5_SingleErrorKind ==
    pc = "parsed" => res.err \in {"", "AssertionError"}

(***************************************************************************)
(* C6.  The top header and the sections.                                   *)
(***************************************************************************)
\* the lines of a text that are not blank, without their padding
NonBlank(lines) == SelectSeq([k \in 1..Len(lines) |-> strip(lines[k])],
                             LAMBDA l : l # <<>>)
\* a level one header reading "changelog", in any case
IsTopHeaderLine(l) ==
    l[1] = "#" /\ strip(lower(Tail(l))) = <<"c", "h", "a", "n", "g", "e", "l", "o", "g">>
\* "##" followed by a character that is not "#"
IsLevelTwoLine(l) == Len(l) > 2 /\ SubSeq(l, 1, 2) = <<"#", "#">> /\ l[3] # "#"

\* what C6 says of a text whose lines that are not blank are nb and whose
\* lines after the top header fall in sections
HeaderAndSections(nb, body, headers, sections) ==
    nb # <<>> =>
      /\ ~IsTopHeaderLine(nb[1]) => res.err # ""
      /\ (IsTopHeaderLine(nb[1]) /\ body # <<>> /\ 1 \notin headers)
             => res.err # ""
      /\ (IsTopHeaderLine(nb[1]) /\ (body = <<>> \/ 1 \in headers)) =>
             /\ sections.err = ""
             /\ Len(sections.val) = Cardinality(headers)
             /\ \A k \in 1..Len(sections.val) :
                    /\ IsLevelTwoLine(sections.val[k][1])
                    /\ \A j \in 2..Len(sections.val[k]) :
                           ~IsLevelTwoLine(sections.val[k][j])
             /\ res.err = "" => Len(res.val.versions) = Cardinality(headers)
LevelTwoLines(body) == {k \in 1..Len(body) : IsLevelTwoLine(body[k])}

\* C6: a text with a line that is not blank fails when its first such line
\* is not the top header, and when the first line after the top header that
\* is not blank is not a level two header; otherwise every level two header
\* line starts one section, every other line falls in a section, and a parse
\* that returns has one version for each level two header line.
C6_HeaderAndSections ==
    pc = "parsed" =>
        HeaderAndSections(
            NonBlank(arg.lines), Tail(NonBlank(arg.lines)),
            LevelTwoLines(Tail(NonBlank(arg.lines))),
            Sections(crop_line_padding(Tail(crop_line_padding(arg.lines))), <<>>))

\* a text with the top header and two version sections was parsed
C6_Witness ==
    /\ pc = "parsed" /\ res.err = ""
    /\ Len(res.val.versions) = 2
    /\ Len(NonBlank(arg.lines)) = 5

(***************************************************************************)
(* C8.  get_mrs with since.                                                *)
(***************************************************************************)
\* the merge requests that target one of branches, were updated no earlier
\* than t and whose merge commit was created no earlier than t
MergedSince(merged, branches, t) ==
    SelectSeq(merged, LAMBDA mr : /\ mr.target_branch \in Range(branches)
                                  /\ mr.updated_at >= t
                                  /\ mr.commit_created_at >= t)

\* C8: get_mrs with a since datetime returns, and returns exactly the
\* fetched merge requests that target one of the given branches, were
\* updated no earlier than since and whose merge commit was created no
\* earlier than since, in the order fetched.
C8_MergedSince ==
    (since # None /\ arg.branches # <<>> /\ pc \in {"got_mrs", "raised"})
        => (pc = "got_mrs" /\ mrs = MergedSince(arg.merged, arg.branches, since))

(***************************************************************************)
(* C9.  Newest first across add runs.                                      *)
(***************************************************************************)
\* the names of the versions a changelog file lists, in the order of the
\* file (without the padding a name may have got; no names for no file)
NamesOf(r) ==
    IF r.err # "" THEN <<>>
    ELSE [k \in 1..Len(r.val.versions) |-> strip(r.val.versions[k].name)]
FileNames(f) == NamesOf(Changelog_from_file(f))

\* C9: a run of add that writes the file leaves it listing the version
\* added first, and after it the versions the file listed before the run,
\* in the order they had there.
C9_NewestFirstKept ==
    [][(pc = "confirm" /\ file' # file)
          => FileNames(file') = <<strip(version.name)>> \o FileNames(file)]_vars

(***************************************************************************)
(* C10.  The draft after a prerelease.                                     *)
(***************************************************************************)
AllButLast(changes) == SubSeq(changes, 1, Len(changes) - 1)

\* C10: when the last version (versions[0] of the list loaded) is a
\* prerelease, the step from the return of get_mrs raises nothing and goes
\* on to the editor, with the draft text of the new version extended with
\* every change line of the prerelease, and with the last change of the
\* prerelease dropped.
C10_PrereleaseDraft ==
    [][(pc = "got_mrs" /\ last_version # <<>> /\ last_version[1].prerelease)
          => /\ pc' = "drafted"
             /\ text' = Version_to_string(version')
                            \o ChangeLines(last_version[1].changes)
             /\ changelog'.versions[1].changes
                    = AllButLast(last_version[1].changes)]_vars

(***************************************************************************)
(* C11.  Parsed versions through to_string and from_string.                *)
(***************************************************************************)
\* C11: for a text t that Version.from_string accepts, with
\* v = Version.from_string(t), Version.from_string(v.to_string()) returns a
\* version with exactly the name, day, month, year, notes and changes of v.
C11_ParsedFixpoint ==
    pc = "reparsed" =>
        /\ res.v2.err = ""
        /\ res.v2.val.name = res.v.val.name
        /\ res.v2.val.day = res.v.val.day
        /\ res.v2.val.month = res.v.val.month
        /\ res.v2.val.year = res.v.val.year
        /\ res.v2.val.notes = res.v.val.notes
        /\ res.v2.val.changes = res.v.val.changes

=============================================================================
